---- MODULE Spec2Model ----
(***************************************************************************)
(* Model of create_banking_schema.py: the BankingDatabase generators run   *)
(* by main() against a fresh SQLite store.                                 *)
(*                                                                         *)
(* Tables are sequences of rows; the id SQLite assigns to a row (INTEGER   *)
(* PRIMARY KEY on a fresh file) is the row's position, starting at 1.      *)
(* A generator is one action: it reads the committed tables, builds its    *)
(* rows from the values it draws from the shared random source, inserts    *)
(* them and commits, or raises and ends the run with nothing committed.    *)
(*                                                                         *)
(* Scale.  The population-sized literals of the source are reduced, each   *)
(* keeping its place in the source's order                                 *)
(*   1 < 101..103 < 150 < 200 < 249 < 250 < 500  and  2000..2050 < 5000:   *)
(*   [101,102,103] -> {2,3,4}    account_ids[150] -> account_ids[4]        *)
(*   sample of 200 -> 5          loan id 150      -> loan id 4             *)
(*   i == 249      -> i == 5     customer_id 250  -> 6                     *)
(*   count=500     -> 7          count=5000       -> 6                     *)
(*   window 2000..2050 -> 2..4   range(1000)      -> range(2)              *)
(* The literals that do not size a table keep the source's values (60      *)
(* days, month 12, month 15, 36 months, 30 days per month, 5 banks).       *)
(* Balances and transaction amounts are in whole dollars, a loan's monthly *)
(* payment in cents, the money of a payment in thousandths of a cent (the  *)
(* fractions the code takes of a payment are then whole numbers); time is  *)
(* in whole hours, dates in whole days.                                    *)
(*                                                                         *)
(* Random draws.  A draw is a choice among the values the call can return, *)
(* a uniform range standing for its two ends.  One generator per run takes *)
(* its draws from the whole of the modelled set (focus); the others take   *)
(* the reference draws, one outcome the same calls can produce.            *)
(***************************************************************************)
EXTENDS Integers, Sequences, FiniteSets, TLC

VARIABLES
    pc,                \* position of main() in the sequence of generators
    error,             \* the exception that ended the run, "none" otherwise
    focus,             \* the generator whose random draws range over all of
                       \* their modelled values; the others take the reference draws
    now,               \* wall clock of the run, in hours
    banks,             \* table banks
    customers,         \* table customers
    users,             \* table users
    accounts,          \* table accounts
    account_customers, \* table account_customers
    transactions,      \* table transactions
    loans,             \* table loans
    payments,          \* table payments
    chat_history,      \* table chat_history
    replay,            \* a second run of main() in step with the first: the same
                       \* seed, so the same draws, at wall clock replay.now
    consumed           \* the generators that have taken a value from the seeded
                       \* random sources

vars == <<pc, error, focus, now, banks, customers, users, accounts,
          account_customers, transactions, loans, payments, chat_history, replay,
          consumed>>

tables == <<banks, customers, users, accounts, account_customers,
            transactions, loans, payments, chat_history>>

----------------------------------------------------------------------------
(* Program constants *)

NumBanks == 5
ClusterOrdinals == {2, 3, 4}
johnson_customers == <<2, 3, 4>>
OutlierOrdinal == 5
OutlierId == 6
JointIndex == 4
DefaultCustomers == 7
DefaultTransactions == 6
WindowLo == 2
WindowHi == 4
LoanSample == 5
ReversalLoan == 4
ReversalMonth == 15
JohnsonMonth == 12
MaxPayments == 36
DaysPerMonth == 30
DefaultThreshold == 60
ChatCount == 2
UserPercent == 80

BigBalance == 5000000
CompromisedAttempts == 47
SmallCustomers == 4
SmallTransactions == 3

(* Bounds of the exploration *)

MaxExtraCustomers == 0   \* customers generated beyond the default count
MaxOddCustomers == 1     \* customers whose PEP/risk draws leave the reference draw
MaxOddAccounts == 2      \* customers whose account count leaves the reference draw
MaxOddTransactions == 1  \* loop indices whose draws leave the reference draw
ReplayDelay == 24        \* hours between the run and its replay

----------------------------------------------------------------------------
(* Helpers *)

Range(s) == {s[k] : k \in 1..Len(s)}

Min(S) == CHOOSE x \in S : \A y \in S : x <= y

RECURSIVE SetToSeq(_)
SetToSeq(S) == IF S = {} THEN <<>> ELSE <<Min(S)>> \o SetToSeq(S \ {Min(S)})

Reverse(s) == [k \in 1..Len(s) |-> s[Len(s) + 1 - k]]

RECURSIVE Flatten(_)
Flatten(ss) == IF ss = <<>> THEN <<>> ELSE Head(ss) \o Flatten(Tail(ss))

SelectIdx(s, P(_)) == SetToSeq({k \in 1..Len(s) : P(s[k])})

Ids(table) == 1..Len(table)

\* random.sample(population, k): a sequence of k distinct members; the orders
\* explored are the ascending and the descending one of every k-subset
SampleSeqs(S, k) ==
    LET subs == {T \in SUBSET S : Cardinality(T) = k}
    IN  {SetToSeq(T) : T \in subs} \cup {Reverse(SetToSeq(T)) : T \in subs}

\* the subsets of S with at most n members
UpTo(S, n) == {T \in SUBSET S : Cardinality(T) <= n}

Stages == {"banks", "customers", "users", "accounts", "transactions", "loans",
           "payments", "chat"}

StartClock == 24012

HoursPerDay == 24

DateOf(clk) == clk \div HoursPerDay

\* str(n) of a natural number, one character per decimal digit
DigitChars == <<"0", "1", "2", "3", "4", "5", "6", "7", "8", "9">>

RECURSIVE Digits(_)
Digits(n) ==
    IF n < 10 THEN <<DigitChars[n + 1]>>
    ELSE Append(Digits(n \div 10), DigitChars[(n % 10) + 1])

\* format(n, "0<width>d"): zeros in front up to the width, never cut
ZeroPad(n, width) ==
    LET ds == Digits(n)
    IN  [k \in 1..(IF Len(ds) < width THEN width - Len(ds) ELSE 0) |-> "0"] \o ds

----------------------------------------------------------------------------
(* generate_banks *)

BankRows == [k \in 1..NumBanks |-> [bank_id |-> k]]

----------------------------------------------------------------------------
(* generate_customers *)

CreditTiers == <<800, 700, 600>>

RefCustomerDraw(i) ==
    [is_pep |-> 0, risk_rating |-> "LOW", credit_score |-> CreditTiers[(i % 3) + 1]]

RefCustomerDraws(count) == [i \in 0..(count - 1) |-> RefCustomerDraw(i)]

\* is_pep and risk_rating are drawn for every ordinal but line 242's; the
\* credit scores drawn run through the three tiers of generate_loans
OddPepRisk == ({0, 1} \X {"LOW", "MEDIUM", "HIGH"}) \ {<<0, "LOW">>}

CustomerDraws(count) ==
    LET drawn == (0..(count - 1)) \ {OutlierOrdinal}
    IN  UNION { { [i \in 0..(count - 1) |->
                     [is_pep       |-> IF i \in odd THEN pr[i][1] ELSE 0,
                      risk_rating  |-> IF i \in odd THEN pr[i][2] ELSE "LOW",
                      credit_score |-> CreditTiers[((i + s) % 3) + 1]]] :
                   pr \in [odd -> OddPepRisk], s \in 0..2 } :
                odd \in UpTo(drawn, MaxOddCustomers) }

\* line 251: the text line 252 hashes into ssn_hash; every customer is
\* given the same fake.ssn()
Ssn(i) == <<"fake_ssn", "-">> \o Digits(i)

CustomerRow(i, d) ==
    [ last_name    |-> IF i \in ClusterOrdinals THEN "Johnson" ELSE "fake_last_name",
      city         |-> IF i \in ClusterOrdinals THEN "Miami" ELSE "fake_city",
      zip_code     |-> IF i \in ClusterOrdinals THEN "33101" ELSE "fake_zipcode",
      street       |-> IF i \in ClusterOrdinals THEN "Oak Street" ELSE "fake_street",
      ssn          |-> Ssn(i),
      credit_score |-> d.credit_score,
      is_pep       |-> IF i = OutlierOrdinal THEN 1 ELSE d.is_pep,
      risk_rating  |-> IF i = OutlierOrdinal THEN "HIGH" ELSE d.risk_rating ]

CustomerRows(count, d) == [k \in 1..count |-> CustomerRow(k - 1, d[k - 1])]

----------------------------------------------------------------------------
(* generate_users *)

\* the share of the customers rounded up
UserSampleSize_RoundUp(custs) == ((Len(custs) * UserPercent) + 99) \div 100

\* line 290: int(len(customer_ids) * 0.8)
UserSampleSize(custs) == (Len(custs) * UserPercent) \div 100

RefUserDraws(custs) ==
    [ sample      |-> [k \in 1..UserSampleSize(custs) |-> k],
      created_ago |-> 26280,
      login_now   |-> TRUE,
      failed      |-> [k \in 1..UserSampleSize(custs) |-> 0] ]

UserDraws(custs) ==
    [ sample      : SampleSeqs(Ids(custs), UserSampleSize(custs)),
      created_ago : {0, 26280},
      login_now   : BOOLEAN,
      failed      : {[k \in 1..UserSampleSize(custs) |-> f] : f \in {0, 3}} ]

UserRow(customer_id, clk, d, k) ==
    LET created_at == clk - d.created_ago
    IN  [ customer_id |-> customer_id,
          created_at  |-> created_at,
          last_login  |-> IF d.login_now THEN clk ELSE created_at,
          is_active   |-> IF customer_id = OutlierId THEN 0 ELSE 1,
          failed_login_attempts |->
              IF customer_id = OutlierId THEN CompromisedAttempts ELSE d.failed[k] ]

UserRows(custs, clk, d) ==
    [k \in 1..Len(d.sample) |-> UserRow(d.sample[k], clk, d, k)]

----------------------------------------------------------------------------
(* generate_accounts *)

NULL == 0

RefAccountDraws(custs) ==
    [ num       |-> [i \in 0..(Len(custs) - 1) |-> 2],
      bank_last |-> FALSE,
      rich      |-> FALSE ]

AccountDraws(custs) ==
    LET ordinals == 0..(Len(custs) - 1)
    IN  UNION { { [ num       |-> [i \in ordinals |-> IF i \in odd THEN n[i] ELSE 2],
                    bank_last |-> b,
                    rich      |-> r ] :
                   n \in [odd -> {1, 3, 4}], b \in BOOLEAN, r \in BOOLEAN } :
                odd \in UpTo(ordinals, MaxOddAccounts) }

\* the customer ordinals spaced by less than the accounts a customer can have
AccountNumber_Stride2(i, j) == Digits(1000000000 + (i * 2) + j)

\* line 340
AccountNumber(i, j) == Digits(1000000000 + (i * 10) + j)

AccountRow(i, j, customer_id, bank_ids, d) ==
    [ account_number |-> AccountNumber(i, j),
      bank_id        |-> IF d.bank_last THEN bank_ids[Len(bank_ids)] ELSE bank_ids[1],
      balance        |-> IF customer_id = OutlierId
                         THEN (IF j = 0 THEN BigBalance
                               ELSE IF d.rich THEN 50000 ELSE 1000)
                         ELSE IF d.rich THEN 100000 ELSE 100,
      status         |-> "ACTIVE" ]

AccountRows(custs, bank_ids, d) ==
    Flatten([k \in 1..Len(custs) |->
               [j1 \in 1..d.num[k - 1] |-> AccountRow(k - 1, j1 - 1, k, bank_ids, d)]])

\* lines 386-393: one PRIMARY row per account, the customers taken in turn
PrimaryRows(account_ids, customer_ids) ==
    [k \in 1..Len(account_ids) |->
        [ account_id        |-> account_ids[k],
          customer_id       |-> customer_ids[((k - 1) % Len(customer_ids)) + 1],
          relationship_type |-> "PRIMARY" ]]

\* the last cluster member left without its JOINT row
JointRows_Short(account_ids) ==
    [k \in 1..(Len(johnson_customers) - 1) |->
        [ account_id        |-> account_ids[JointIndex + 1],
          customer_id       |-> johnson_customers[k],
          relationship_type |-> "JOINT" ]]

\* lines 396-404
JointRows(account_ids) ==
    [k \in 1..Len(johnson_customers) |->
        [ account_id        |-> account_ids[JointIndex + 1],
          customer_id       |-> johnson_customers[k],
          relationship_type |-> "JOINT" ]]

\* INSERT OR IGNORE under PRIMARY KEY (account_id, customer_id)
RECURSIVE InsertOrIgnore(_, _)
InsertOrIgnore(table, rows) ==
    IF rows = <<>> THEN table
    ELSE LET r == Head(rows)
             dup == \E k \in 1..Len(table) :
                       /\ table[k].account_id = r.account_id
                       /\ table[k].customer_id = r.customer_id
         IN  InsertOrIgnore(IF dup THEN table ELSE Append(table, r), Tail(rows))

\* PRAGMA foreign_keys = ON: the FOREIGN KEY clauses of account_customers
OwnershipKeysOK(rows, accts, custs) ==
    \A k \in 1..Len(rows) : /\ rows[k].account_id \in Ids(accts)
                            /\ rows[k].customer_id \in Ids(custs)

\* lines 335-337: num_accounts is drawn for the first customer before line 341
\* looks at bank_ids
AccountsDraw(custs) == Len(custs) > 0

AccountsOutcome(custs, bnks, accts, ac, d) ==
    LET bank_ids     == [k \in 1..Len(bnks) |-> bnks[k].bank_id]
        customer_ids == [k \in 1..Len(custs) |-> k]
        all          == accts \o AccountRows(custs, bank_ids, d)
        account_ids  == [k \in 1..Len(all) |-> k]
        rows         == PrimaryRows(account_ids, customer_ids) \o JointRows(account_ids)
    IN  IF Len(custs) > 0 /\ Len(bnks) = 0
        THEN [error |-> "IndexError", accounts |-> accts, account_customers |-> ac]
        ELSE IF Len(all) <= JointIndex
        THEN [error |-> "IndexError", accounts |-> accts, account_customers |-> ac]
        ELSE IF ~OwnershipKeysOK(rows, all, custs)
        THEN [error |-> "IntegrityError", accounts |-> accts, account_customers |-> ac]
        ELSE [error |-> "none", accounts |-> all,
              account_customers |-> InsertOrIgnore(ac, rows)]

----------------------------------------------------------------------------
(* generate_transactions *)

TxTypes == {"DEPOSIT", "WITHDRAWAL", "TRANSFER", "FEE", "INTEREST"}

\* line 415: SELECT account_id, balance FROM accounts WHERE status = "ACTIVE"
ActiveAccounts(accts) ==
    LET ids == SelectIdx(accts, LAMBDA a : a.status = "ACTIVE")
    IN  [k \in 1..Len(ids) |-> [account_id |-> ids[k], balance |-> accts[ids[k]].balance]]

\* lines 419-425: the join is answered from idx_account_customers, in the
\* order the ownership rows were inserted
customer_250_accounts(ac) ==
    LET ks == SelectIdx(ac, LAMBDA r : r.customer_id = OutlierId)
    IN  [k \in 1..Len(ks) |-> ac[ks[k]].account_id]

\* the window closed one index early
InWindow_Exclusive(i) == i >= WindowLo /\ i < WindowHi

InWindow(i) == i >= WindowLo /\ i <= WindowHi

PositionOf(active, account_id) ==
    Min({k \in 1..Len(active) : active[k].account_id = account_id})

RefTxDraw ==
    [account |-> 1, type |-> "WITHDRAWAL", amount_hi |-> FALSE, recent |-> FALSE]

RefTxDraws(count) == [i \in 0..(count - 1) |-> RefTxDraw]

\* the positions random.choice(accounts) is explored at
AccountPicks(active, c250) ==
    {1} \cup (IF c250 # <<>> /\ \E k \in 1..Len(active) : active[k].account_id = c250[1]
              THEN {PositionOf(active, c250[1])} ELSE {})

TxDrawsAt(i, active, c250) ==
    IF InWindow(i) /\ c250 # <<>>
    THEN {[RefTxDraw EXCEPT !.amount_hi = TRUE]}
    ELSE [account : AccountPicks(active, c250), type : TxTypes,
          amount_hi : {FALSE}, recent : BOOLEAN] \ {RefTxDraw}

TxDraws(count, active, c250) ==
    UNION { { [i \in 0..(count - 1) |-> IF i \in odd THEN o[i] ELSE RefTxDraw] :
                o \in {f \in [odd -> UNION {TxDrawsAt(i, active, c250) : i \in odd}] :
                         \A i \in odd : f[i] \in TxDrawsAt(i, active, c250)} } :
            odd \in UpTo(0..(count - 1), MaxOddTransactions) }

\* lines 469-488: the low and the high end of each type's amounts
NormalAmount(type, hi) ==
    CASE type = "DEPOSIT"    -> IF hi THEN 5000 ELSE 500
      [] type = "WITHDRAWAL" -> IF hi THEN 500 ELSE 10
      [] type = "TRANSFER"   -> IF hi THEN 2000 ELSE 100
      [] type = "FEE"        -> IF hi THEN 35 ELSE 5
      [] OTHER               -> IF hi THEN 50 ELSE 1

\* lines 495-498
BalanceAfter(current_balance, type, amount) ==
    IF type \in {"DEPOSIT", "INTEREST"}
    THEN current_balance + amount
    ELSE current_balance - amount

\* line 445
UseOutlierAccount(i, c250) == InWindow(i) /\ c250 # <<>>

\* line 455
IsStructuring(i, c250, account_id) == InWindow(i) /\ c250 # <<>> /\ account_id = c250[1]

\* lines 447-452: every account row is ACTIVE, so the search of line 447 finds
\* the outlier's account
PickAccount(i, active, c250, d) ==
    IF UseOutlierAccount(i, c250)
    THEN active[PositionOf(active, c250[1])]
    ELSE active[d.account]

\* line 500: "TXN", the date of the run as eight digits, the loop index on
\* six digits
ReferenceNumber(clk, i) == <<"T", "X", "N">> \o ZeroPad(DateOf(clk), 8) \o ZeroPad(i, 6)

TransactionRow(i, active, c250, clk, d) ==
    LET picked     == PickAccount(i, active, c250, d)
        structured == IsStructuring(i, c250, picked.account_id)
        type       == IF structured THEN "WITHDRAWAL" ELSE d.type
        amount     == IF structured THEN (IF d.amount_hi THEN 498 ELSE 495)
                      ELSE NormalAmount(d.type, d.amount_hi)
    IN  [ account_id       |-> picked.account_id,
          transaction_type |-> type,
          amount           |-> amount,
          balance_after    |-> BalanceAfter(picked.balance, type, amount),
          transaction_date |-> IF structured
                               THEN clk - ((30 * HoursPerDay) + (i - WindowLo))
                               ELSE IF d.recent THEN clk ELSE clk - 8760,
          merchant         |-> IF structured THEN "ATM Withdrawal" ELSE "other",
          reference_number |-> ReferenceNumber(clk, i),
          is_flagged       |-> IF structured THEN 1 ELSE 0 ]

\* each account's balance updated to the balance_after of its last transaction
TransactionsOutcome_WriteBack(accts, ac, txs, clk, count, d) ==
    LET active == ActiveAccounts(accts)
        c250   == customer_250_accounts(ac)
        rows   == [k \in 1..count |-> TransactionRow(k - 1, active, c250, clk, d[k - 1])]
        on(a)  == {k \in 1..count : rows[k].account_id = a}
    IN  IF count > 0 /\ active = <<>>
        THEN [error |-> "IndexError", transactions |-> txs, accounts |-> accts]
        ELSE [error |-> "none",
              transactions |-> txs \o rows,
              accounts |-> [a \in 1..Len(accts) |->
                              IF on(a) = {} THEN accts[a]
                              ELSE LET last == CHOOSE k \in on(a) : \A j \in on(a) : j <= k
                                   IN  [accts[a] EXCEPT !.balance = rows[last].balance_after]]]

\* lines 415-528: the accounts are read once (line 415) and no statement
\* writes to them; line 452 raises on an empty account list
TransactionsOutcome(accts, ac, txs, clk, count, d) ==
    LET active == ActiveAccounts(accts)
        c250   == customer_250_accounts(ac)
    IN  IF count > 0 /\ active = <<>>
        THEN [error |-> "IndexError", transactions |-> txs, accounts |-> accts]
        ELSE [error |-> "none",
              transactions |-> txs \o [k \in 1..count |->
                                 TransactionRow(k - 1, active, c250, clk, d[k - 1])],
              accounts |-> accts]

----------------------------------------------------------------------------
(* generate_loans *)

JohnsonIds == Range(johnson_customers)

\* line 576 (and lines 640, 739): customer_id in [101, 102, 103]
InCluster(customer_id) == customer_id \in JohnsonIds

\* lines 542-550
LoanTypes(credit_score) ==
    IF credit_score >= 750 THEN <<"MORTGAGE", "AUTO", "PERSONAL">>
    ELSE IF credit_score >= 650 THEN <<"AUTO", "PERSONAL">>
    ELSE <<"PERSONAL">>

\* lines 542-550: interest_rate_base, in basis points (1/10000)
InterestRateBase(credit_score) ==
    IF credit_score >= 750 THEN 300
    ELSE IF credit_score >= 650 THEN 500
    ELSE 800

\* lines 555-566: principal in dollars, the increment random.uniform adds to
\* the base rate in basis points, and term_months; each range is taken at
\* its two ends and at one value in between, each choice list at its first
\* and last entry
LoanTerms(loan_type) ==
    IF loan_type = "MORTGAGE"
    THEN << [principal |-> 150000,  increment |-> 0,   term_months |-> 180],
            [principal |-> 300000,  increment |-> 150, term_months |-> 360],
            [principal |-> 1000000, increment |-> 200, term_months |-> 360] >>
    ELSE IF loan_type = "AUTO"
    THEN << [principal |-> 15000,   increment |-> 100, term_months |-> 36],
            [principal |-> 45000,   increment |-> 200, term_months |-> 48],
            [principal |-> 75000,   increment |-> 300, term_months |-> 72] >>
    ELSE << [principal |-> 5000,    increment |-> 200, term_months |-> 12],
            [principal |-> 27500,   increment |-> 350, term_months |-> 36],
            [principal |-> 50000,   increment |-> 500, term_months |-> 60] >>

\* Lines 569-570 compute in floating point.  The model computes the same
\* expression in fixed point: a number is NumLimbs digits in base Limb, the
\* first IntLimbs of them before the point, so that it carries sixteen
\* decimal places, as many as a double carries significant digits.
Limb == 10000
NumLimbs == 7
IntLimbs == 3

FromInt(n) ==
    <<n \div (Limb * Limb), (n \div Limb) % Limb, n % Limb, 0, 0, 0, 0>>

RECURSIVE Carry(_, _, _, _)
Carry(raw, k, c, acc) ==
    IF k = 0 THEN acc
    ELSE LET t == raw[k] + c
         IN  Carry(raw, k - 1, t \div Limb, <<t % Limb>> \o acc)

RECURSIVE Dot(_, _, _, _)
Dot(a, b, k, i) ==
    IF i = 0 THEN 0
    ELSE LET j == (k + IntLimbs) - i
         IN  (IF j >= 1 /\ j <= NumLimbs THEN a[i] * b[j] ELSE 0) + Dot(a, b, k, i - 1)

RECURSIVE Raw(_, _, _)
Raw(a, b, k) ==
    IF k = 0 THEN <<>> ELSE Append(Raw(a, b, k - 1), Dot(a, b, k, NumLimbs))

\* a * b, the digits past the last place dropped
Mul(a, b) ==
    LET raw == Raw(a, b, NumLimbs + 1)
    IN  Carry(raw, NumLimbs, raw[NumLimbs + 1] \div Limb, <<>>)

RECURSIVE LongDiv(_, _, _, _, _)
LongDiv(a, d, k, rem, acc) ==
    IF k > NumLimbs THEN acc
    ELSE LET t == (rem * Limb) + a[k]
         IN  LongDiv(a, d, k + 1, t % d, Append(acc, t \div d))

\* a / d for a whole number d
ShortDiv(a, d) == LongDiv(a, d, 1, 0, <<>>)

Leq(a, b) ==
    \/ a = b
    \/ \E k \in 1..NumLimbs : /\ a[k] < b[k]
                              /\ \A j \in 1..(k - 1) : a[j] = b[j]

AddOne(a) == [a EXCEPT ![IntLimbs] = @ + 1]

SubOne(a) == [a EXCEPT ![IntLimbs] = @ - 1]

\* a ** n by repeated squaring
RECURSIVE Pow(_, _)
Pow(a, n) ==
    IF n = 0 THEN FromInt(1)
    ELSE CHOOSE p \in { IF n % 2 = 0 THEN Mul(h, h) ELSE Mul(a, Mul(h, h)) :
                          h \in {Pow(a, n \div 2)} } : TRUE

\* the largest whole q in lo..hi with q * den <= num
RECURSIVE Quotient(_, _, _, _)
Quotient(num, den, lo, hi) ==
    IF lo = hi THEN lo
    ELSE LET mid == (lo + hi + 1) \div 2
         IN  IF Leq(Mul(FromInt(mid), den), num)
             THEN Quotient(num, den, mid, hi)
             ELSE Quotient(num, den, lo, mid - 1)

\* the monthly rate taken as a tenth of the annual rate
MonthlyRate_Tenth(interest_rate) ==
    ShortDiv(ShortDiv(FromInt(interest_rate), Limb), 10)

\* line 569: interest_rate / 12, interest_rate in basis points
MonthlyRate(interest_rate) ==
    ShortDiv(ShortDiv(FromInt(interest_rate), Limb), 12)

\* line 570, the value to the nearest cent
MonthlyPayment(principal, monthly_rate, term_months) ==
    CHOOSE m \in { (Quotient(Mul(Mul(Mul(FromInt(principal), monthly_rate), growth),
                                 FromInt(Limb)),
                             SubOne(growth), 0, 1000000000) + 50) \div 100 :
                   growth \in {Pow(AddOne(monthly_rate), term_months)} } : TRUE

\* the <<principal, interest_rate, term_months>> lines 542-566 can produce
AllLoanTerms ==
    { <<t.principal, base + t.increment, t.term_months>> :
        t \in UNION {Range(LoanTerms(ty)) : ty \in {"MORTGAGE", "AUTO", "PERSONAL"}},
        base \in {InterestRateBase(c) : c \in Range(CreditTiers)} }

\* lines 569-570 for each of them, computed once
MonthlyPayments ==
    [t \in AllLoanTerms |-> MonthlyPayment(t[1], MonthlyRate(t[2]), t[3])]

\* the threshold day itself counted as a default
JohnsonStatus_AtLeast(delinquency_days) ==
    IF delinquency_days >= DefaultThreshold THEN "DEFAULTED" ELSE "ACTIVE"

\* line 578
JohnsonStatus(delinquency_days) ==
    IF delinquency_days > DefaultThreshold THEN "DEFAULTED" ELSE "ACTIVE"

\* line 582
NormalStatus(delinquency_days) ==
    IF delinquency_days < DefaultThreshold THEN "ACTIVE" ELSE "DEFAULTED"

\* line 577: random.randint(30, 90), explored at its ends and around day 60
JohnsonDelinquency == {30, 60, 61, 90}

\* line 581: random.choices([0, 0, 0, 0, 15, 30], ...)
NormalDelinquency == {0, 15, 30}

\* line 572: the loan's age in days when it is generated, between six months
\* and five years
LoanAges == {183, 480, 1826}

RefLoanDraws ==
    [ sample           |-> [k \in 1..LoanSample |-> k],
      type_last        |-> FALSE,
      bank_last        |-> FALSE,
      terms            |-> 2,
      delinq_johnson   |-> 90,
      delinq_normal    |-> 0,
      age_days         |-> 1826 ]

\* every sample, type, delinquency and age with the terms in between, and
\* every type and terms with the rest at the reference draws
LoanDraws(custs) ==
    [ sample           : IF LoanSample <= Len(custs)
                         THEN SampleSeqs(Ids(custs), LoanSample)
                         ELSE {<<>>},
      type_last        : BOOLEAN,
      bank_last        : {FALSE},
      terms            : {2},
      delinq_johnson   : JohnsonDelinquency,
      delinq_normal    : NormalDelinquency,
      age_days         : LoanAges ]
    \cup { [[RefLoanDraws EXCEPT !.type_last = tl, !.terms = t]
               EXCEPT !.sample = IF LoanSample <= Len(custs) THEN @ ELSE <<>>] :
             tl \in BOOLEAN, t \in {1, 3} }

LoanRow(customer_id, credit_score, bank_ids, clk, d) ==
    LET loan_types       == LoanTypes(credit_score)
        loan_type        == IF d.type_last THEN loan_types[Len(loan_types)]
                            ELSE loan_types[1]
        terms            == LoanTerms(loan_type)[d.terms]
        interest_rate    == InterestRateBase(credit_score) + terms.increment
        in_cluster       == InCluster(customer_id)
        delinquency_days == IF in_cluster THEN d.delinq_johnson ELSE d.delinq_normal
    IN  [ customer_id      |-> customer_id,
          bank_id          |-> IF d.bank_last THEN bank_ids[Len(bank_ids)] ELSE bank_ids[1],
          loan_type        |-> loan_type,
          principal        |-> terms.principal,
          interest_rate    |-> interest_rate,
          term_months      |-> terms.term_months,
          monthly_payment  |-> MonthlyPayments[<<terms.principal, interest_rate,
                                                  terms.term_months>>],
          origination_date |-> DateOf(clk) - d.age_days,
          status           |-> IF in_cluster THEN JohnsonStatus(delinquency_days)
                               ELSE NormalStatus(delinquency_days),
          delinquency_days |-> delinquency_days ]

\* a sample that shrinks to the customers there are
LoansOutcome_Shorter(custs, bnks, lns, clk, d) ==
    LET bank_ids == [k \in 1..Len(bnks) |-> bnks[k].bank_id]
        sample   == SelectSeq(RefLoanDraws.sample, LAMBDA c : c <= Len(custs))
    IN  [error |-> "none",
         loans |-> lns \o [k \in 1..Len(sample) |->
                     LoanRow(sample[k], custs[sample[k]].credit_score,
                             bank_ids, clk, d)]]

\* line 540 raises before the loop when the sample is larger than the
\* population, line 553 raises on an empty bank list
LoansOutcome(custs, bnks, lns, clk, d) ==
    LET bank_ids == [k \in 1..Len(bnks) |-> bnks[k].bank_id]
    IN  IF LoanSample > Len(custs)
        THEN [error |-> "ValueError", loans |-> lns]
        ELSE IF Len(bnks) = 0
        THEN [error |-> "IndexError", loans |-> lns]
        ELSE [error |-> "none",
              loans |-> lns \o [k \in 1..LoanSample |->
                          LoanRow(d.sample[k], custs[d.sample[k]].credit_score,
                                  bank_ids, clk, d)]]

----------------------------------------------------------------------------
(* generate_payments *)

RefPaymentDraws ==
    [skipped |-> {}, johnson_late |-> 15, johnson_pct |-> 50, days_late |-> 0]

\* skipped: the months at which line 641 draws above 0.5
PaymentDraws ==
    [ skipped      : {{}, {ReversalMonth}, (JohnsonMonth + 1)..(MaxPayments - 1)},
      johnson_late : {15, 45},
      johnson_pct  : {50, 80},
      days_late    : {0, 3, 7, 15} ]

\* line 634
MonthsSince(origination_date, clk) == (DateOf(clk) - origination_date) \div DaysPerMonth

\* line 636
PaymentMonths(origination_date, clk) ==
    LET m == MonthsSince(origination_date, clk)
    IN  0..((IF m < MaxPayments THEN m ELSE MaxPayments) - 1)

\* line 640
IrregularMonth(customer_id, month) == InCluster(customer_id) /\ month > JohnsonMonth

\* month 15 of every loan reversed
IsReversed_AnyLoan(loan_id, month) == month = ReversalMonth

\* line 658
IsReversed(loan_id, month) == loan_id = ReversalLoan /\ month = ReversalMonth

\* a payment's money is in thousandths of a cent
MillisPerDollar == 100000

\* line 646: monthly_payment (cents) * random.uniform(0.5, 0.8), the factor in
\* percent; line 650 is the factor 100
Amount(monthly_payment, percent) == (monthly_payment * 10) * percent

\* the fee charged from the third day on
LateFee_FromDay3(days_late) == IF days_late >= 3 THEN 25 * MillisPerDollar ELSE 0

\* line 651
LateFee(days_late) == IF days_late > 5 THEN 25 * MillisPerDollar ELSE 0

\* line 654: amount * 0.3 (an amount is a whole number of hundredths of a cent)
InterestPaid(amount) == (amount \div 10) * 3

\* line 655: amount * 0.7 - late_fee
PrincipalPaid(amount, late_fee) == ((amount \div 10) * 7) - late_fee

PaymentRow(loan_id, loan, month, d) ==
    LET scheduled_date == loan.origination_date + (month * DaysPerMonth)
        irregular == IrregularMonth(loan.customer_id, month)
        days_late == IF irregular THEN d.johnson_late ELSE d.days_late
        amount    == IF irregular THEN Amount(loan.monthly_payment, d.johnson_pct)
                     ELSE Amount(loan.monthly_payment, 100)
        late_fee  == IF irregular THEN 50 * MillisPerDollar ELSE LateFee(days_late)
    IN  [ loan_id         |-> loan_id,
          payment_date    |-> scheduled_date + days_late,
          scheduled_date  |-> scheduled_date,
          amount          |-> amount,
          principal_paid  |-> PrincipalPaid(amount, late_fee),
          interest_paid   |-> InterestPaid(amount),
          late_fee        |-> late_fee,
          is_reversed     |-> IF IsReversed(loan_id, month) THEN 1 ELSE 0,
          reversal_reason |-> IF IsReversed(loan_id, month)
                              THEN "Insufficient funds - payment reversed after 3 days"
                              ELSE "None" ]

\* lines 636-678 for one loan: the months in order, line 642 leaving out the
\* skipped ones
LoanPayments(loan_id, loan, clk, d) ==
    LET months == SetToSeq(PaymentMonths(loan.origination_date, clk))
    IN  Flatten([k \in 1..Len(months) |->
                   IF IrregularMonth(loan.customer_id, months[k]) /\ months[k] \in d.skipped
                   THEN <<>>
                   ELSE <<PaymentRow(loan_id, loan, months[k], d)>>])

PaymentsOutcome(lns, pays, clk, d) ==
    LET ids == SelectIdx(lns, LAMBDA l : l.status \in {"ACTIVE", "DEFAULTED"})
    IN  [error |-> "none",
         payments |-> pays \o Flatten([k \in 1..Len(ids) |->
                                LoanPayments(ids[k], lns[ids[k]], clk, d)])]

----------------------------------------------------------------------------
(* generate_chat_history *)

\* the mapping built the wrong way round: keyed by user id
UserOf_Swapped(usrs, customer_id) ==
    IF customer_id \in 1..Len(usrs) THEN usrs[customer_id].customer_id ELSE NULL

\* line 695: the dict keeps the last user row of each customer
UserOf(usrs, customer_id) ==
    LET ks == {k \in 1..Len(usrs) : usrs[k].customer_id = customer_id}
    IN  IF ks = {} THEN NULL ELSE CHOOSE k \in ks : \A j \in ks : j <= k

RefChatDraws == [k \in 1..ChatCount |-> 1]

ChatDraws(custs) == [1..ChatCount -> Ids(custs)]

ChatRow(customer_id, usrs) ==
    [ customer_id |-> customer_id,
      user_id     |-> UserOf(usrs, customer_id),
      negative    |-> InCluster(customer_id) ]

ChatOutcome(custs, usrs, chats, d) ==
    IF ChatCount > 0 /\ Len(custs) = 0
    THEN [error |-> "IndexError", chat_history |-> chats]
    ELSE [error |-> "none",
          chat_history |-> chats \o [k \in 1..ChatCount |-> ChatRow(d[k], usrs)]]

----------------------------------------------------------------------------
(* main *)

\* the count arguments: main() passes the defaults
CustomerCounts ==
    IF focus = "customers"
    THEN {SmallCustomers} \cup (DefaultCustomers..(DefaultCustomers + MaxExtraCustomers))
    ELSE {DefaultCustomers}

TransactionCounts ==
    IF focus = "transactions"
    THEN {SmallTransactions, DefaultTransactions}
    ELSE {DefaultTransactions}

Explore(stage, all, ref) == IF focus = stage THEN all ELSE {ref}

EmptyRun(clk) ==
    [ now |-> clk, banks |-> <<>>, customers |-> <<>>, users |-> <<>>,
      accounts |-> <<>>, account_customers |-> <<>>, transactions |-> <<>>,
      loans |-> <<>>, payments |-> <<>>, chat_history |-> <<>> ]

Init ==
    /\ pc = "banks"
    /\ error = "none"
    /\ focus \in Stages
    /\ now = StartClock
    /\ banks = <<>>
    /\ customers = <<>>
    /\ users = <<>>
    /\ accounts = <<>>
    /\ account_customers = <<>>
    /\ transactions = <<>>
    /\ loans = <<>>
    /\ payments = <<>>
    /\ chat_history = <<>>
    /\ replay = EmptyRun(now + ReplayDelay)
    /\ consumed = {}

\* the generator has called the random sources by the time it returns or
\* raises
Draws(stage, called) == consumed' = IF called THEN consumed \cup {stage} ELSE consumed

\* the exception leaves main(): nothing of the generator is committed
Raise(e) ==
    /\ pc' = "aborted"
    /\ error' = e
    /\ UNCHANGED <<focus, now, tables, replay>>

generate_banks ==
    /\ pc = "banks"
    /\ banks' = banks \o BankRows
    /\ replay' = [replay EXCEPT !.banks = @ \o BankRows]
    /\ pc' = "customers"
    /\ UNCHANGED <<error, focus, now, customers, users, accounts, account_customers,
                   transactions, loans, payments, chat_history, consumed>>

\* a caller that goes on without the reference data
omit_banks ==
    /\ pc = "banks"
    /\ focus = "banks"
    /\ pc' = "customers"
    /\ UNCHANGED <<error, focus, now, tables, replay, consumed>>

generate_customers ==
    /\ pc = "customers"
    /\ \E count \in CustomerCounts :
       \E d \in Explore("customers", CustomerDraws(count), RefCustomerDraws(count)) :
          /\ customers' = customers \o CustomerRows(count, d)
          /\ replay' = [replay EXCEPT !.customers = @ \o CustomerRows(count, d)]
          /\ Draws("customers", count > 0)
    /\ pc' = "users"
    /\ UNCHANGED <<error, focus, now, banks, users, accounts, account_customers,
                   transactions, loans, payments, chat_history>>

generate_users ==
    /\ pc = "users"
    /\ \E d \in Explore("users", UserDraws(customers), RefUserDraws(customers)) :
          /\ users' = users \o UserRows(customers, now, d)
          /\ replay' = [replay EXCEPT !.users = @ \o UserRows(replay.customers, replay.now, d)]
    /\ Draws("users", UserSampleSize(customers) > 0)
    /\ pc' = "accounts"
    /\ UNCHANGED <<error, focus, now, banks, customers, accounts, account_customers,
                   transactions, loans, payments, chat_history>>

generate_accounts ==
    /\ pc = "accounts"
    /\ Draws("accounts", AccountsDraw(customers))
    /\ \E d \in Explore("accounts", AccountDraws(customers), RefAccountDraws(customers)) :
          LET out == AccountsOutcome(customers, banks, accounts, account_customers, d)
              rep == AccountsOutcome(replay.customers, replay.banks, replay.accounts,
                                     replay.account_customers, d)
          IN  IF out.error # "none" THEN Raise(out.error)
              ELSE /\ accounts' = out.accounts
                   /\ account_customers' = out.account_customers
                   /\ replay' = [replay EXCEPT !.accounts = rep.accounts,
                                               !.account_customers = rep.account_customers]
                   /\ pc' = "transactions"
                   /\ UNCHANGED <<error, focus, now, banks, customers, users,
                                  transactions, loans, payments, chat_history>>

generate_transactions ==
    /\ pc = "transactions"
    /\ \E count \in TransactionCounts :
       /\ Draws("transactions", count > 0 /\ ActiveAccounts(accounts) # <<>>)
       /\ \E d \in Explore("transactions",
                        TxDraws(count, ActiveAccounts(accounts),
                                customer_250_accounts(account_customers)),
                        RefTxDraws(count)) :
          LET out == TransactionsOutcome(accounts, account_customers, transactions,
                                         now, count, d)
              rep == TransactionsOutcome(replay.accounts, replay.account_customers,
                                         replay.transactions, replay.now, count, d)
          IN  IF out.error # "none" THEN Raise(out.error)
              ELSE /\ transactions' = out.transactions
                   /\ accounts' = out.accounts
                   /\ replay' = [replay EXCEPT !.transactions = rep.transactions,
                                               !.accounts = rep.accounts]
                   /\ pc' = "loans"
                   /\ UNCHANGED <<error, focus, now, banks, customers, users,
                                  account_customers, loans, payments, chat_history>>

generate_loans ==
    /\ pc = "loans"
    /\ Draws("loans", LoanSample <= Len(customers))
    /\ \E d \in Explore("loans", LoanDraws(customers), RefLoanDraws) :
          LET out == LoansOutcome(customers, banks, loans, now, d)
              rep == LoansOutcome(replay.customers, replay.banks, replay.loans,
                                  replay.now, d)
          IN  IF out.error # "none" THEN Raise(out.error)
              ELSE /\ loans' = out.loans
                   /\ replay' = [replay EXCEPT !.loans = rep.loans]
                   /\ pc' = "payments"
                   /\ UNCHANGED <<error, focus, now, banks, customers, users, accounts,
                                  account_customers, transactions, payments, chat_history>>

generate_payments ==
    /\ pc = "payments"
    /\ \E d \in Explore("payments", PaymentDraws, RefPaymentDraws) :
          LET out == PaymentsOutcome(loans, payments, now, d)
              rep == PaymentsOutcome(replay.loans, replay.payments, replay.now, d)
          IN  /\ payments' = out.payments
              /\ replay' = [replay EXCEPT !.payments = rep.payments]
    /\ Draws("payments", \E k \in 1..Len(loans) :
                             PaymentMonths(loans[k].origination_date, now) # {})
    /\ pc' = "chat"
    /\ UNCHANGED <<error, focus, now, banks, customers, users, accounts,
                   account_customers, transactions, loans, chat_history>>

generate_chat_history ==
    /\ pc = "chat"
    /\ Draws("chat", ChatCount > 0 /\ Len(customers) > 0)
    /\ \E d \in Explore("chat", ChatDraws(customers), RefChatDraws) :
          LET out == ChatOutcome(customers, users, chat_history, d)
              rep == ChatOutcome(replay.customers, replay.users, replay.chat_history, d)
          IN  IF out.error # "none" THEN Raise(out.error)
              ELSE /\ chat_history' = out.chat_history
                   /\ replay' = [replay EXCEPT !.chat_history = rep.chat_history]
                   /\ pc' = "report"
                   /\ UNCHANGED <<error, focus, now, banks, customers, users, accounts,
                                  account_customers, transactions, loans, payments>>

\* writes challenge_questions.txt; no table is touched
create_challenge_queries ==
    /\ pc = "report"
    /\ pc' = "done"
    /\ UNCHANGED <<error, focus, now, tables, replay, consumed>>

Next ==
    \/ generate_banks
    \/ omit_banks
    \/ generate_customers
    \/ generate_users
    \/ generate_accounts
    \/ generate_transactions
    \/ generate_loans
    \/ generate_payments
    \/ generate_chat_history
    \/ create_challenge_queries

Spec == Init /\ [][Next]_vars

----------------------------------------------------------------------------
(* Properties *)

AfterCustomers == pc \notin {"banks", "customers"}

AfterTransactions == pc \in {"loans", "payments", "chat", "report", "done"}

AfterLoans == pc \in {"payments", "chat", "report", "done"}

AfterPayments == pc \in {"chat", "report", "done"}

DefaultPopulation == Len(customers) = DefaultCustomers

\* the customers generate_customers gave the shared surname and address
SharedAddress ==
    {c \in Ids(customers) : /\ customers[c].last_name = "Johnson"
                            /\ customers[c].city = "Miami"
                            /\ customers[c].zip_code = "33101"
                            /\ customers[c].street = "Oak Street"}

JointOwners ==
    {account_customers[k].customer_id :
        k \in {j \in 1..Len(account_customers) :
                 account_customers[j].relationship_type = "JOINT"}}

\* C1: after a full run with the default population, the JOINT owners of the
\* designated account and the customers whose loans get the forced
\* delinquency are exactly the three customers generated with the shared
\* surname, city, zip and Oak Street address.
C1_ClusterIsSharedAddress ==
    (pc = "done" /\ DefaultPopulation) =>
        /\ Cardinality(SharedAddress) = 3
        /\ JointOwners = SharedAddress
        /\ {c \in Ids(customers) : InCluster(c)} = SharedAddress

TransactionsOf(a) == {k \in 1..Len(transactions) : transactions[k].account_id = a}

LastOf(a) ==
    {k \in TransactionsOf(a) :
        \A j \in TransactionsOf(a) :
            transactions[j].transaction_date <= transactions[k].transaction_date}

\* C2: after generate_transactions, the stored balance of every account that
\* has transactions equals the balance_after of its chronologically-last
\* transaction.
C2_BalanceIsLastBalanceAfter ==
    AfterTransactions =>
        \A a \in Ids(accounts) :
            TransactionsOf(a) # {} =>
                \E k \in LastOf(a) : transactions[k].balance_after = accounts[a].balance

Signed(type, amount) == IF type \in {"DEPOSIT", "INTEREST"} THEN amount ELSE 0 - amount

PreviousOf(k) ==
    {j \in 1..(k - 1) : transactions[j].account_id = transactions[k].account_id}

\* C3: every transaction's balance_after is the balance_after of the previous
\* transaction generated for the same account (the account's opening balance
\* if there is none) plus the amount for DEPOSIT/INTEREST, minus it otherwise.
C3_RunningBalance ==
    AfterTransactions =>
        \A k \in 1..Len(transactions) :
            LET t == transactions[k]
                before == IF PreviousOf(k) = {} THEN accounts[t.account_id].balance
                          ELSE transactions[CHOOSE j \in PreviousOf(k) :
                                   \A i \in PreviousOf(k) : i <= j].balance_after
            IN  t.balance_after = before + Signed(t.transaction_type, t.amount)

\* C4: two full runs with the same seed and parameters produce identical
\* records of every kind, whatever the wall-clock time of each run.
C4_ReplayIdentical ==
    pc = "done" =>
        /\ replay.banks = banks
        /\ replay.customers = customers
        /\ replay.users = users
        /\ replay.accounts = accounts
        /\ replay.account_customers = account_customers
        /\ replay.transactions = transactions
        /\ replay.loans = loans
        /\ replay.payments = payments
        /\ replay.chat_history = chat_history

PepHigh ==
    {c \in Ids(customers) : customers[c].is_pep = 1 /\ customers[c].risk_rating = "HIGH"}

\* C5: after generate_customers(N) with N reaching the outlier's ordinal,
\* exactly one customer has PEP=true and risk HIGH: the one at the outlier's
\* ordinal, whatever the other customers draw.
C5_ExactlyOnePepHigh ==
    (AfterCustomers /\ Len(customers) > OutlierOrdinal) => PepHigh = {OutlierId}

Flagged == {k \in 1..Len(transactions) : transactions[k].is_flagged = 1}

OwnedByOutlier ==
    {k \in 1..Len(account_customers) : account_customers[k].customer_id = OutlierId}

\* C6: with the default population and transaction count, the flagged
\* transactions are exactly those of the loop indices of the window: one per
\* index, all against the first account of the designated customer, all
\* WITHDRAWAL with an amount in [495, 499), stamped 30 days plus (i - WindowLo)
\* hours before generation time.
C6_StructuringWindow ==
    (AfterTransactions /\ DefaultPopulation /\ Len(transactions) = DefaultTransactions) =>
        /\ Flagged = {i + 1 : i \in WindowLo..WindowHi}
        /\ Cardinality(Flagged) = (WindowHi - WindowLo) + 1
        /\ OwnedByOutlier # {}
        /\ \A k \in Flagged :
              LET t == transactions[k]
                  i == k - 1
              IN  /\ t.reference_number = ReferenceNumber(now, i)
                  /\ t.account_id = account_customers[Min(OwnedByOutlier)].account_id
                  /\ t.transaction_type = "WITHDRAWAL"
                  /\ t.amount >= 495 /\ t.amount < 499
                  /\ t.transaction_date = now - ((30 * HoursPerDay) + (i - WindowLo))

C6_Witness ==
    /\ pc = "done" /\ DefaultPopulation /\ Len(transactions) = DefaultTransactions
    /\ \E k \in Flagged : transactions[k].amount = 498
    /\ \E k \in 1..Len(transactions) :
          k \notin Flagged /\ transactions[k].transaction_type = "WITHDRAWAL"

\* the month index of a payment row: its scheduled date counted in 30-day
\* steps from the loan's origination date
MonthOf(p) == (p.scheduled_date - loans[p.loan_id].origination_date) \div DaysPerMonth

DesignatedPayments ==
    {k \in 1..Len(payments) :
        payments[k].loan_id = ReversalLoan /\ MonthOf(payments[k]) = ReversalMonth}

\* C7: after generate_loans and generate_payments, exactly one payment row
\* has the designated loan id and month index, and it is reversed with a
\* non-null reason, whatever loan the designated id was generated as.
C7_ExactlyOneReversedPayment ==
    AfterPayments =>
        /\ Cardinality(DesignatedPayments) = 1
        /\ \A k \in DesignatedPayments :
              payments[k].is_reversed = 1 /\ payments[k].reversal_reason # "None"

OwnersOf(a, kind) ==
    {k \in 1..Len(account_customers) :
        /\ account_customers[k].account_id = a
        /\ account_customers[k].relationship_type = kind}

\* C8: after generate_accounts every account has exactly one PRIMARY row;
\* the account at positional index JointIndex has four owners, one PRIMARY
\* and three JOINT; every other account has exactly one owner.
C8_Ownership ==
    Len(accounts) > 0 =>
        /\ \A a \in Ids(accounts) : Cardinality(OwnersOf(a, "PRIMARY")) = 1
        /\ Cardinality(OwnersOf(JointIndex + 1, "JOINT")) = 3
        /\ \A a \in Ids(accounts) \ {JointIndex + 1} :
              Cardinality({k \in 1..Len(account_customers) :
                             account_customers[k].account_id = a}) = 1
        /\ \A k \in 1..Len(account_customers) :
              account_customers[k].relationship_type \in {"PRIMARY", "JOINT"}

C8_Witness ==
    /\ pc = "transactions"
    /\ Len(accounts) > Len(customers) + 1
    /\ Cardinality({account_customers[k].customer_id : k \in OwnersOf(JointIndex + 1, "PRIMARY")
                       \cup OwnersOf(JointIndex + 1, "JOINT")}) = 4

\* C9: in every state, every committed child row references a committed
\* parent row of the right kind, and a chat session's user id, when present,
\* is the credential of that session's customer.
C9_ReferentialIntegrity ==
    /\ \A k \in 1..Len(users) : users[k].customer_id \in Ids(customers)
    /\ \A k \in 1..Len(accounts) : accounts[k].bank_id \in Ids(banks)
    /\ \A k \in 1..Len(account_customers) :
          /\ account_customers[k].account_id \in Ids(accounts)
          /\ account_customers[k].customer_id \in Ids(customers)
    /\ \A k \in 1..Len(transactions) : transactions[k].account_id \in Ids(accounts)
    /\ \A k \in 1..Len(loans) :
          /\ loans[k].customer_id \in Ids(customers)
          /\ loans[k].bank_id \in Ids(banks)
    /\ \A k \in 1..Len(payments) : payments[k].loan_id \in Ids(loans)
    /\ \A k \in 1..Len(chat_history) :
          /\ chat_history[k].customer_id \in Ids(customers)
          /\ chat_history[k].user_id # NULL =>
                /\ chat_history[k].user_id \in Ids(users)
                /\ users[chat_history[k].user_id].customer_id = chat_history[k].customer_id

C9_Witness ==
    /\ pc = "done"
    /\ \E k \in 1..Len(chat_history) :
          chat_history[k].user_id # NULL /\ chat_history[k].user_id # chat_history[k].customer_id
    /\ Len(payments) > 0

\* C10: every loan, of a cluster member or not, is DEFAULTED if and only if
\* its delinquency_days is greater than 60, and ACTIVE otherwise.
C10_DefaultedIffOver60 ==
    \A k \in 1..Len(loans) :
        /\ loans[k].status = "DEFAULTED" <=> loans[k].delinquency_days > 60
        /\ loans[k].status = "ACTIVE" <=> loans[k].delinquency_days <= 60

C10_Witness ==
    /\ \E k \in 1..Len(loans) :
          /\ InCluster(loans[k].customer_id)
          /\ loans[k].delinquency_days = 61
          /\ loans[k].status = "DEFAULTED"
    /\ \E k \in 1..Len(loans) :
          /\ ~InCluster(loans[k].customer_id)
          /\ loans[k].delinquency_days = 30
          /\ loans[k].status = "ACTIVE"

----------------------------------------------------------------------------
\* the terms a loan row stores
TermsOf(l) == <<l.principal, l.interest_rate, l.term_months>>

\* (1 + R/12)^n for annual rate R in basis points
GrowthOf(R, n) == Pow(AddOne(ShortDiv(ShortDiv(FromInt(R), Limb), 12)), n)

\* P*(R/12)*(1+R/12)^n / ((1+R/12)^n - 1) to the nearest cent
AmortizedPayment(P, R, n) ==
    LET r == ShortDiv(ShortDiv(FromInt(R), Limb), 12)
    IN  CHOOSE m \in { (Quotient(Mul(Mul(Mul(FromInt(P), r), g), FromInt(Limb)),
                                 SubOne(g), 0, 1000000000) + 50) \div 100 :
                       g \in {GrowthOf(R, n)} } : TRUE

AmortizedPayments == [t \in AllLoanTerms |-> AmortizedPayment(t[1], t[2], t[3])]

Denominators == [t \in AllLoanTerms |-> SubOne(GrowthOf(t[2], t[3]))]

\* C11: every loan's stored monthly payment is P*(R/12)*(1+R/12)^n divided by
\* (1+R/12)^n - 1 for the principal P, annual rate R and term n the loan
\* stores; R is strictly positive and the divisor is not zero; the loan of
\* 300000 at 4.5% over 360 months pays 1520.06 to within a cent.
C11_MonthlyPayment ==
    \A k \in 1..Len(loans) :
        LET l == loans[k]
            t == TermsOf(l)
        IN  /\ l.interest_rate > 0
            /\ Denominators[t] # FromInt(0)
            /\ l.monthly_payment = AmortizedPayments[t]
            /\ t = <<300000, 450, 360>> => l.monthly_payment \in 152005..152007

C11_Witness ==
    /\ \E k \in 1..Len(loans) : TermsOf(loans[k]) = <<300000, 450, 360>>
    /\ \E k \in 1..Len(loans) : loans[k].loan_type = "PERSONAL"
    /\ \E k \in 1..Len(loans) : loans[k].loan_type = "AUTO"

----------------------------------------------------------------------------
\* C12: generate_loans started with fewer customers than the sample size ends
\* the run with an error, the loans table stays empty, and every other table
\* stays as it was committed.
C12_LoansAbort ==
    [][ (pc = "loans" /\ Len(customers) < LoanSample)
        => /\ pc' = "aborted"
           /\ error' # "none"
           /\ loans' = <<>>
           /\ UNCHANGED tables ]_vars

C12_Witness ==
    /\ pc = "aborted"
    /\ error = "ValueError"
    /\ Len(customers) = SmallCustomers
    /\ Len(banks) = NumBanks
    /\ Len(accounts) > 0
    /\ Len(transactions) > 0
    /\ loans = <<>>

----------------------------------------------------------------------------
\* C13: generate_accounts started with no bank committed ends the run with
\* an error without having taken a value from the random sources, and leaves
\* the accounts and account_customers tables empty.
C13_NoBanksPrecondition ==
    [][ (pc = "accounts" /\ banks = <<>>)
        => /\ pc' = "aborted"
           /\ error' # "none"
           /\ "accounts" \notin consumed'
           /\ accounts' = <<>>
           /\ account_customers' = <<>> ]_vars

----------------------------------------------------------------------------
\* s is the beginning of t
IsPrefix(s, t) == Len(s) <= Len(t) /\ \A k \in 1..Len(s) : t[k] = s[k]

\* C14: no step removes or changes a committed row of any table;
\* generate_transactions leaves the accounts table, balances included, as
\* it was, and generate_payments leaves the loans table as it was.
C14_AppendOnly ==
    [][ /\ IsPrefix(banks, banks')
        /\ IsPrefix(customers, customers')
        /\ IsPrefix(users, users')
        /\ IsPrefix(accounts, accounts')
        /\ IsPrefix(account_customers, account_customers')
        /\ IsPrefix(transactions, transactions')
        /\ IsPrefix(loans, loans')
        /\ IsPrefix(payments, payments')
        /\ IsPrefix(chat_history, chat_history')
        /\ pc = "transactions" => accounts' = accounts
        /\ pc = "payments" => loans' = loans ]_vars

C14_Witness ==
    /\ pc = "chat"
    /\ \E k \in 1..Len(transactions) :
          transactions[k].balance_after # accounts[transactions[k].account_id].balance
    /\ Len(payments) > 0
    /\ Len(loans) = LoanSample

----------------------------------------------------------------------------
\* the rows of a table differ pairwise in the field
Unique(table, Field(_)) ==
    \A a, b \in 1..Len(table) : a # b => Field(table[a]) # Field(table[b])

\* C15: whatever is drawn, no two accounts have the same account number, no
\* two transactions the same reference number, and no two customers the same
\* text hashed into ssn_hash.
C15_UniqueByConstruction ==
    /\ Unique(accounts, LAMBDA r : r.account_number)
    /\ Unique(transactions, LAMBDA r : r.reference_number)
    /\ Unique(customers, LAMBDA r : r.ssn)

C15_Witness ==
    /\ pc = "done"
    /\ Len(customers) = DefaultCustomers
    /\ Len(transactions) = DefaultTransactions
    /\ \E a \in 1..Len(accounts) : accounts[a].account_number = Digits(1000000003)
    /\ \E a \in 1..Len(accounts) : accounts[a].account_number = Digits(1000000010)

----------------------------------------------------------------------------
AfterUsers == pc \notin {"banks", "customers", "users"}

\* C16: once generate_users has run on N customers there are exactly
\* floor(0.8 * N) users, no two of them for the same customer, and none with
\* a last login before its creation.
C16_Credentials ==
    AfterUsers =>
        /\ Len(users) = (4 * Len(customers)) \div 5
        /\ \A a, b \in 1..Len(users) :
              a # b => users[a].customer_id # users[b].customer_id
        /\ \A a \in 1..Len(users) : users[a].last_login >= users[a].created_at

C16_Witness ==
    /\ pc = "done"
    /\ Len(customers) = DefaultCustomers
    /\ Len(users) = 5
    /\ users[1].customer_id = DefaultCustomers
    /\ users[1].last_login > users[1].created_at

----------------------------------------------------------------------------
\* the loans of a customer
LoansOf(c) == {k \in 1..Len(loans) : loans[k].customer_id = c}

\* C17: after a full run with the default population each customer of the
\* cluster has a loan, and every loan of a cluster customer is DEFAULTED with
\* a delinquency of 30 to 90 days.
C17_ClusterLoansDefaulted ==
    (pc = "done" /\ DefaultPopulation) =>
        \A c \in JohnsonIds :
            /\ LoansOf(c) # {}
            /\ \A k \in LoansOf(c) : /\ loans[k].status = "DEFAULTED"
                                     /\ loans[k].delinquency_days \in 30..90

----------------------------------------------------------------------------
ReversedPayments == {k \in 1..Len(payments) : payments[k].is_reversed = 1}

\* C18: in every state at most one payment is reversed; a reversed payment
\* is the one of the designated loan at the designated month; a payment that
\* is not reversed has no reversal reason.
C18_ReversalOnlyDesignated ==
    /\ Cardinality(ReversedPayments) <= 1
    /\ \A k \in ReversedPayments : /\ payments[k].loan_id = ReversalLoan
                                   /\ MonthOf(payments[k]) = ReversalMonth
    /\ \A k \in 1..Len(payments) :
          k \notin ReversedPayments => payments[k].reversal_reason = "None"

C18_Witness ==
    /\ ReversedPayments # {}
    /\ \E k \in 1..Len(payments) : /\ payments[k].loan_id # ReversalLoan
                                   /\ MonthOf(payments[k]) = ReversalMonth
                                   /\ payments[k].is_reversed = 0
    /\ \E k \in 1..Len(payments) : /\ payments[k].loan_id = ReversalLoan
                                   /\ MonthOf(payments[k]) = ReversalMonth + 1
                                   /\ payments[k].is_reversed = 0

----------------------------------------------------------------------------
\* the accounts given the forced balance
RichAccounts == {a \in 1..Len(accounts) : accounts[a].balance = BigBalance}

\* C19: with the default population, the account with the forced balance is
\* owned by the designated customer in account_customers, and the flagged
\* withdrawals of the window are made against it.
C19_RichAccountIsStructured ==
    (AfterTransactions /\ DefaultPopulation) =>
        /\ RichAccounts # {}
        /\ \A a \in RichAccounts :
              /\ \E k \in OwnedByOutlier : account_customers[k].account_id = a
              /\ \A k \in Flagged : transactions[k].account_id = a

----------------------------------------------------------------------------
\* the payment was built by the branch of lines 640-647
Irregular(p) == IrregularMonth(loans[p.loan_id].customer_id, MonthOf(p))

\* C20: of every payment, interest_paid is three tenths of the amount and
\* principal_paid seven tenths less the late fee, so the three parts add up
\* to the amount; a payment outside the cluster's irregular branch carries a
\* late fee of 25 when it is more than 5 days late and none otherwise.
C20_PaymentSplit ==
    \A k \in 1..Len(payments) :
        LET p == payments[k]
        IN  /\ p.amount % 10 = 0
            /\ p.interest_paid = 3 * (p.amount \div 10)
            /\ p.principal_paid = (7 * (p.amount \div 10)) - p.late_fee
            /\ p.interest_paid + p.principal_paid + p.late_fee = p.amount
            /\ ~Irregular(p) =>
                  p.late_fee = IF (p.payment_date - p.scheduled_date) > 5
                               THEN 25 * MillisPerDollar ELSE 0

C20_Witness ==
    /\ \E k \in 1..Len(payments) :
          /\ ~Irregular(payments[k])
          /\ payments[k].payment_date - payments[k].scheduled_date = 7
          /\ payments[k].late_fee = 25 * MillisPerDollar
    /\ \E k \in 1..Len(payments) :
          /\ Irregular(payments[k])
          /\ payments[k].late_fee = 50 * MillisPerDollar

----------------------------------------------------------------------------
\* the users of a customer
UsersOf(c) == {k \in 1..Len(users) : users[k].customer_id = c}

\* C21: once generate_users has run on the default population, the
\* designated customer has a user with 47 failed login attempts that is not
\* active, and every user of another customer is active with 0 to 3 failed
\* login attempts.
C21_CompromisedCredential ==
    (AfterUsers /\ DefaultPopulation) =>
        /\ \E k \in UsersOf(OutlierId) :
              /\ users[k].failed_login_attempts = CompromisedAttempts
              /\ users[k].is_active = 0
        /\ \A k \in 1..Len(users) :
              users[k].customer_id # OutlierId =>
                  /\ users[k].is_active = 1
                  /\ users[k].failed_login_attempts \in 0..3

====
